---- MODULE Spec2Model ----
(***************************************************************************)
(* A model of pyfluv's CrossSection (src/pyfluv/streamgeometry.py): the    *)
(* construction of a cross section, the recomputation of its bankfull      *)
(* statistics and the bankfull elevation search bkf_binary_search.         *)
(*                                                                         *)
(* Numbers.  The program computes with floats.  The model computes with    *)
(* integers: a length (station, elevation, width, depth, perimeter) is a   *)
(* whole number of thousandths of the survey's length unit and an area is  *)
(* a whole number of squared thousandths.  Every division rounds, as the   *)
(* float division does, only at a coarser precision.  The tolerance        *)
(* epsilon is held in thousandths of the statistic's unit, so that the     *)
(* default target/1000 is exact.                                           *)
(*                                                                         *)
(* Optional values.  None is the empty tuple and a value v that is present *)
(* is the tuple <<v>>.                                                     *)
(***************************************************************************)
EXTENDS Integers, Sequences, FiniteSets, TLC

None == << >>

Some(v) == <<v>>

Val(x) == x[1]

\* Python's truth value of an optional number: None and 0 are both false.
Truthy(x) == x # None /\ Val(x) # 0

Abs(a) == IF a < 0 THEN -a ELSE a

\* num/den rounded to the nearest integer (den > 0).
RoundDiv(num, den) == (2 * num + den) \div (2 * den)

\* Zero-based indexing, as in the source.
At(seq, i) == seq[i + 1]

RECURSIVE SeqMin(_)
SeqMin(seq) ==
  IF Len(seq) = 1 THEN seq[1]
  ELSE LET m == SeqMin(Tail(seq)) IN IF seq[1] <= m THEN seq[1] ELSE m

RECURSIVE SeqMax(_)
SeqMax(seq) ==
  IF Len(seq) = 1 THEN seq[1]
  ELSE LET m == SeqMax(Tail(seq)) IN IF seq[1] >= m THEN seq[1] ELSE m

\* Integer square root (the largest r with r*r <= v), by bisection on [lo, hi].
RECURSIVE IsqrtIn(_, _, _)
IsqrtIn(v, lo, hi) ==
  IF lo >= hi THEN lo
  ELSE LET mid == (lo + hi + 1) \div 2
       IN IF mid * mid <= v THEN IsqrtIn(v, mid, hi) ELSE IsqrtIn(v, lo, mid - 1)

Isqrt(v) == IsqrtIn(v, 0, IF v < 46340 THEN v ELSE 46340)

\* Integer cube root (the largest r with r*r*r <= v), by bisection on [lo, hi].
RECURSIVE IcbrtIn(_, _, _)
IcbrtIn(v, lo, hi) ==
  IF lo >= hi THEN lo
  ELSE LET mid == (lo + hi + 1) \div 2
       IN IF mid * mid * mid <= v THEN IcbrtIn(v, mid, hi) ELSE IcbrtIn(v, lo, mid - 1)

Icbrt(v) == IcbrtIn(v, 0, IF v < 1290 THEN v ELSE 1290)

(***************************************************************************)
(* streammath: the geometry primitives the CrossSection calls.             *)
(***************************************************************************)

\* The index of the minimum value, the leftmost one on ties.
find_min_index(seq) ==
  LET m == SeqMin(seq)
  IN (CHOOSE i \in 1..Len(seq) : seq[i] = m /\ \A j \in 1..(i - 1) : seq[j] # m) - 1

\* The index of the value closest to v (n = 1), the leftmost one on ties.
get_nth_closest_index_by_value(seq, v, nth) ==
  (CHOOSE i \in 1..Len(seq) :
      /\ \A j \in 1..Len(seq) : Abs(seq[i] - v) <= Abs(seq[j] - v)
      /\ \A j \in 1..(i - 1) : Abs(seq[j] - v) > Abs(seq[i] - v)) - 1

\* Walk outward from index i while the elevation is at or below el.
RECURSIVE WalkLeft(_, _, _)
WalkLeft(elevations, el, i) ==
  IF i > 0 /\ At(elevations, i - 1) <= el THEN WalkLeft(elevations, el, i - 1) ELSE i

RECURSIVE WalkRight(_, _, _)
WalkRight(elevations, el, i) ==
  IF i < Len(elevations) - 1 /\ At(elevations, i + 1) <= el
  THEN WalkRight(elevations, el, i + 1) ELSE i

\* The station where the segment from the submerged point (s1, e1) to the dry
\* point (s2, e2) reaches elevation el, by linear interpolation (e2 > el >= e1).
InterpolateStation(s1, e1, s2, e2, el) ==
  IF s2 >= s1 THEN s1 + RoundDiv((el - e1) * (s2 - s1), e2 - e1)
  ELSE s1 - RoundDiv((el - e1) * (s1 - s2), e2 - e1)

\* The bankfull series: the contiguous run of points at or below el around the
\* thalweg, each open end closed by the interpolated point at elevation el; an
\* end that runs off the survey is closed by the boundary point itself.
break_at_bankfull(stations, elevations, el, thwIndex) ==
  LET l == WalkLeft(elevations, el, thwIndex)
      r == WalkRight(elevations, el, thwIndex)
      last == Len(elevations) - 1
      leftSta == IF l > 0
                 THEN <<InterpolateStation(At(stations, l), At(elevations, l),
                                           At(stations, l - 1), At(elevations, l - 1), el)>>
                 ELSE << >>
      rightSta == IF r < last
                  THEN <<InterpolateStation(At(stations, r), At(elevations, r),
                                            At(stations, r + 1), At(elevations, r + 1), el)>>
                  ELSE << >>
      leftEl == IF l > 0 THEN <<el>> ELSE << >>
      rightEl == IF r < last THEN <<el>> ELSE << >>
  IN <<leftSta \o SubSeq(stations, l + 1, r + 1) \o rightSta,
       leftEl \o SubSeq(elevations, l + 1, r + 1) \o rightEl>>

\* Twice the signed area of the polygon the series closes with the water line
\* joining its two ends (trapezoidal rule around the polygon).
RECURSIVE TwiceSignedArea(_, _, _)
TwiceSignedArea(sta, el, i) ==
  IF i > Len(sta) THEN 0
  ELSE LET j == IF i = Len(sta) THEN 1 ELSE i + 1
       IN (sta[i] * el[j] - sta[j] * el[i]) + TwiceSignedArea(sta, el, i + 1)

\* The flow area: between the bankfull series and the water line.
get_area(sta, el) == Abs(TwiceSignedArea(sta, el, 1)) \div 2

\* Last station minus first station.
max_width(sta) == SeqMax(sta) - SeqMin(sta)

\* Bankfull elevation minus the lowest elevation of the series.
max_depth(el, bkfEl) == bkfEl - SeqMin(el)

\* Area divided by width.
get_mean_depth(sta, el, bkfEl, ignoreCeilings) ==
  RoundDiv(get_area(sta, el), max_width(sta))

\* Euclidean length of the segment from (s1, e1) to (s2, e2).
length_of_segment(s1, e1, s2, e2) ==
  Isqrt((s2 - s1) * (s2 - s1) + (e2 - e1) * (e2 - e1))

\* The stationing of a survey shot along a straight line (the northing is
\* constant, so whys is not read): projected, the signed distance of each shot
\* from the first along the line; unprojected, the length of the path walked.
RECURSIVE PathLength(_, _)
PathLength(exes, i) ==
  IF i <= 1 THEN 0 ELSE PathLength(exes, i - 1) + Abs(exes[i] - exes[i - 1])

get_stationing(exes, whys, project) ==
  [i \in 1..Len(exes) |-> IF project THEN exes[i] - exes[1] ELSE PathLength(exes, i)]

\* Is the sequence monotonic non-decreasing?
monotonic_increasing(seq) == \A i \in 1..(Len(seq) - 1) : seq[i] <= seq[i + 1]

\* The side of the line through p and q that r lies on (the sign of the cross
\* product): 1 left, -1 right, 0 on the line.
Orientation(p, q, r) ==
  LET c == (q[1] - p[1]) * (r[2] - p[2]) - (q[2] - p[2]) * (r[1] - p[1])
  IN IF c > 0 THEN 1 ELSE IF c < 0 THEN -1 ELSE 0

\* r, known to be on the line through p and q, lies within the segment pq.
OnSegment(p, q, r) ==
  /\ r[1] >= (IF p[1] <= q[1] THEN p[1] ELSE q[1])
  /\ r[1] <= (IF p[1] <= q[1] THEN q[1] ELSE p[1])
  /\ r[2] >= (IF p[2] <= q[2] THEN p[2] ELSE q[2])
  /\ r[2] <= (IF p[2] <= q[2] THEN q[2] ELSE p[2])

\* Do the segments p1 q1 and p2 q2 share a point?
segments_intersect(p1, q1, p2, q2) ==
  LET o1 == Orientation(p1, q1, p2)
      o2 == Orientation(p1, q1, q2)
      o3 == Orientation(p2, q2, p1)
      o4 == Orientation(p2, q2, q1)
  IN \/ (o1 # o2 /\ o3 # o4)
     \/ (o1 = 0 /\ OnSegment(p1, q1, p2))
     \/ (o2 = 0 /\ OnSegment(p1, q1, q2))
     \/ (o3 = 0 /\ OnSegment(p2, q2, p1))
     \/ (o4 = 0 /\ OnSegment(p2, q2, q1))

\* Segment k (from 0) of the polyline: from point k to point k + 1.
SegmentStart(sta, el, k) == <<At(sta, k), At(el, k)>>
SegmentEnd(sta, el, k) == <<At(sta, k + 1), At(el, k + 1)>>

\* The pairs of non-adjacent segments of the polyline that intersect.
CrossingPairs(sta, el) ==
  {pr \in (0..(Len(sta) - 2)) \X (0..(Len(sta) - 2)) :
      /\ pr[2] >= pr[1] + 2
      /\ segments_intersect(SegmentStart(sta, el, pr[1]), SegmentEnd(sta, el, pr[1]),
                            SegmentStart(sta, el, pr[2]), SegmentEnd(sta, el, pr[2]))}

\* <<simple?, i, j>>: whether no two non-adjacent segments intersect, and if
\* some do the first such pair of segment indices (else -1, -1).
is_simple(sta, el) ==
  LET crossing == CrossingPairs(sta, el)
  IN IF crossing = {} THEN <<TRUE, -1, -1>>
     ELSE LET first == CHOOSE pr \in crossing :
                          \A qr \in crossing :
                             pr[1] < qr[1] \/ (pr[1] = qr[1] /\ pr[2] <= qr[2])
          IN <<FALSE, first[1], first[2]>>

\* The blend of two conflicting elevations: the lower at fraction 0, the
\* higher at fraction 1 (1000 thousandths), linear in between.
BlendElevations(e1, e2, fraction) ==
  LET lower == IF e1 <= e2 THEN e1 ELSE e2
      higher == IF e1 <= e2 THEN e2 ELSE e1
  IN lower + RoundDiv((higher - lower) * fraction, 1000)

\* The fraction a method stands for: 'fill' keeps the higher elevation, 'cut'
\* the lower.
MethodFraction(method) == IF method = "fill" THEN 1000 ELSE 0

\* Overhang removal, left to right: a shot whose station falls back behind the
\* last station kept is merged into that point (the shared station), whose
\* elevation becomes the blend of the two conflicting elevations.
RECURSIVE RemoveFrom(_, _, _, _, _, _)
RemoveFrom(sta, el, i, outSta, outEl, fraction) ==
  IF i > Len(sta) THEN <<outSta, outEl>>
  ELSE LET k == Len(outSta)
       IN IF sta[i] < outSta[k]
          THEN RemoveFrom(sta, el, i + 1, outSta,
                          [outEl EXCEPT ![k] = BlendElevations(outEl[k], el[i], fraction)],
                          fraction)
          ELSE RemoveFrom(sta, el, i + 1, Append(outSta, sta[i]),
                          Append(outEl, el[i]), fraction)

remove_overhangs(sta, el, method, adjustY) ==
  RemoveFrom(sta, el, 2, <<sta[1]>>, <<el[1]>>, MethodFraction(method))

(***************************************************************************)
(* The CrossSection object.  xs holds its attributes under the source's    *)
(* names; xs.raised is not an attribute: it names the exception that ended *)
(* the last computation on the object ("none" when it completed).          *)
(***************************************************************************)

NoExc == "none"

\* The two unit tables of streamconstants, in thousandths.
unitDict(metric) ==
  IF metric THEN [gammaWater |-> 9810000, manningsNumerator |-> 1000]
  ELSE [gammaWater |-> 62400, manningsNumerator |-> 1490]

\* Run one step of a computation unless an earlier step has raised.
Then(o, f(_)) == IF o.raised = NoExc THEN f(o) ELSE o

\* self.<name> = value: the attribute holds the value and, from now on, exists.
Assign(o, name, value) ==
  [o EXCEPT ![name] = value, !.assigned = @ \cup {name}]

\* A step of the constructor's pipeline is entered: it is appended to the
\* record of the steps taken.
Enter(o, method) == [o EXCEPT !.log = Append(@, method)]

create_2d_form(o) ==
  LET e == Enter(o, "create_2d_form")
  IN Assign(Assign(e, "rawSta", get_stationing(e.exes, e.whys, e.project)),
            "rawEl", e.zees)

\* The validation that warns of a self-intersection without raising.
validate_geometry_Lenient(o) ==
  LET e == Enter(o, "validate_geometry")
      noOverhangs == ~monotonic_increasing(e.rawSta)
      h == IF noOverhangs THEN Assign(e, "hasOverhangs", TRUE) ELSE e
  IN [h EXCEPT !.checkedSta = h.rawSta, !.checkedEl = h.rawEl]

\* The validation with the monotonicity test taken the wrong way round.
validate_geometry_Inverted(o) ==
  LET e == Enter(o, "validate_geometry")
      noOverhangs == monotonic_increasing(e.rawSta)
      h == IF noOverhangs THEN Assign(e, "hasOverhangs", TRUE) ELSE e
      simplicity == is_simple(h.rawSta, h.rawEl)
      c == [h EXCEPT !.checkedSta = h.rawSta, !.checkedEl = h.rawEl]
  IN IF ~simplicity[1]
     THEN [c EXCEPT !.raised = "SelfIntersecting",
                    !.crossing = <<simplicity[2], simplicity[3]>>]
     ELSE c

\* checkedSta, checkedEl: the series handed to is_simple; crossing: the segment
\* indices the exception's message names.
validate_geometry(o) ==
  LET e == Enter(o, "validate_geometry")
      noOverhangs == ~monotonic_increasing(e.rawSta)
      h == IF noOverhangs THEN Assign(e, "hasOverhangs", TRUE) ELSE e
      simplicity == is_simple(h.rawSta, h.rawEl)
      c == [h EXCEPT !.checkedSta = h.rawSta, !.checkedEl = h.rawEl]
  IN IF ~simplicity[1]
     THEN [c EXCEPT !.raised = "SelfIntersecting",
                    !.crossing = <<simplicity[2], simplicity[3]>>]
     ELSE c

\* The resolution that keeps the raw series whether or not it has overhangs.
check_sta_and_el_KeepsRaw(o) ==
  LET e == Enter(o, "check_sta_and_el")
  IN Assign(Assign(e, "stations", e.rawSta), "elevations", e.rawEl)

check_sta_and_el(o) ==
  LET e == Enter(o, "check_sta_and_el")
  IN IF ~e.hasOverhangs
     THEN Assign(Assign(e, "stations", e.rawSta), "elevations", e.rawEl)
     ELSE LET removed == remove_overhangs(e.rawSta, e.rawEl, "fill", TRUE)
          IN Assign(Assign(e, "stations", removed[1]), "elevations", removed[2])

set_thw_index(o) ==
  LET e == Enter(o, "set_thw_index")
  IN IF ~Truthy(e.thwStation)
     THEN Assign(e, "thwIndex", find_min_index(e.elevations))
     ELSE IF \/ Val(e.thwStation) < At(e.stations, 0)
             \/ Val(e.thwStation) > At(e.stations, Len(e.stations) - 1)
          THEN Assign(e, "thwIndex", find_min_index(e.elevations))
          ELSE Assign(e, "thwIndex",
                      get_nth_closest_index_by_value(e.stations, Val(e.thwStation), 1))

set_bankfull_stations_and_elevations(o) ==
  IF Truthy(o.bkfEl)
  THEN IF Val(o.bkfEl) <= SeqMin(o.elevations)
       THEN [o EXCEPT !.raised = "BelowChannel"]
       ELSE IF At(o.elevations, o.thwIndex) >= Val(o.bkfEl)
            THEN [o EXCEPT !.raised = "ThalwegAboveBankfull"]
            ELSE LET broken == break_at_bankfull(o.stations, o.elevations,
                                                 Val(o.bkfEl), o.thwIndex)
                 IN Assign(Assign(o, "bStations", Some(broken[1])),
                           "bElevations", Some(broken[2]))
  ELSE Assign(Assign(o, "bStations", None), "bElevations", None)

calculate_area(o) ==
  IF Truthy(o.bkfEl)
  THEN Assign(o, "bkfA", Some(get_area(Val(o.bStations), Val(o.bElevations))))
  ELSE Assign(o, "bkfA", None)

calculate_mean_depth(o) ==
  IF Truthy(o.bkfEl)
  THEN IF max_width(Val(o.bStations)) = 0
       THEN [o EXCEPT !.raised = "ZeroDivisionError"]
       ELSE Assign(o, "bkfMeanD", Some(get_mean_depth(Val(o.bStations),
                                         Val(o.bElevations), Val(o.bkfEl), TRUE)))
  ELSE Assign(o, "bkfMeanD", None)

calculate_max_depth(o) ==
  IF Truthy(o.bkfEl)
  THEN Assign(o, "bkfMaxD", Some(max_depth(Val(o.bElevations), Val(o.bkfEl))))
  ELSE Assign(o, "bkfMaxD", None)

calculate_width(o) ==
  IF Truthy(o.bkfEl)
  THEN Assign(o, "bkfW", Some(max_width(Val(o.bStations))))
  ELSE Assign(o, "bkfW", None)

RECURSIVE SumSegmentLengths(_, _, _)
SumSegmentLengths(sta, el, i) ==
  IF i >= Len(sta) THEN 0
  ELSE length_of_segment(sta[i], el[i], sta[i + 1], el[i + 1])
       + SumSegmentLengths(sta, el, i + 1)

calculate_wetted_perimeter(o) ==
  IF Truthy(o.bkfEl)
  THEN Assign(o, "bkfWetP",
              Some(SumSegmentLengths(Val(o.bStations), Val(o.bElevations), 1)))
  ELSE Assign(o, "bkfWetP", None)

calculate_hydraulic_radius(o) ==
  IF Truthy(o.bkfEl)
  THEN IF Val(o.bkfWetP) = 0
       THEN [o EXCEPT !.raised = "ZeroDivisionError"]
       ELSE Assign(o, "bkfHydR", Some(RoundDiv(Val(o.bkfA), Val(o.bkfWetP))))
  ELSE Assign(o, "bkfHydR", None)

\* self.unitDict('gammaWater') calls the unit table, a dict: a TypeError.
calculate_shear_stress(o) ==
  IF Truthy(o.waterSlope) /\ Truthy(o.bkfEl)
  THEN [o EXCEPT !.raised = "TypeError"]
  ELSE Assign(o, "bkfStress", None)

\* The three reserved statistics: bodies of `pass`, which assign nothing.
calculate_max_entrained_particle(o) == o

calculate_floodprone_elevation(o) == o

calculate_floodprone_width(o) == o

\* (manNum/manN) * A * R^(2/3) * S^(1/2); slope and roughness in thousandths.
ManningFlow(manNum, manN, area, hydR, slope) ==
  (((manNum * area) \div manN) * Icbrt(hydR * hydR) * Isqrt(slope * 1000))
     \div (100 * 1000)

calculate_flow(o) ==
  IF Truthy(o.waterSlope) /\ Truthy(o.manN) /\ Truthy(o.bkfEl)
  THEN Assign(o, "bkfQ", Some(ManningFlow(unitDict(o.metric).manningsNumerator,
                                Val(o.manN), Val(o.bkfA), Val(o.bkfHydR),
                                Val(o.waterSlope))))
  ELSE Assign(o, "bkfQ", None)

calculate_bankfull_statistics(o) ==
  LET o1 == set_bankfull_stations_and_elevations([o EXCEPT !.raised = NoExc])
      o2 == Then(o1, calculate_area)
      o3 == Then(o2, calculate_mean_depth)
      o4 == Then(o3, calculate_max_depth)
      o5 == Then(o4, calculate_width)
      o6 == Then(o5, calculate_wetted_perimeter)
      o7 == Then(o6, calculate_hydraulic_radius)
      o8 == Then(o7, calculate_shear_stress)
      o9 == Then(o8, calculate_max_entrained_particle)
      o10 == Then(o9, calculate_floodprone_elevation)
      o11 == Then(o10, calculate_floodprone_width)
  IN Then(o11, calculate_flow)

\* self.bkfEl = bkfEl (line 104).
set_bkfEl(o, value) == Assign(o, "bkfEl", value)

\* The attributes lines 82-97 assign before the pipeline starts.
ConstructorAttributes ==
  {"name", "exes", "whys", "zees", "project", "metric", "unitDict", "thwStation",
   "manN", "waterSlope", "fillFraction", "hasOverhangs"}

\* CrossSection.__init__.  An attribute not yet assigned holds a placeholder
\* and is not in `assigned`.
NewCrossSection(a) ==
  LET o0 == [metric |-> a.metric, thwStation |-> a.thwStation, manN |-> a.manN,
             waterSlope |-> a.waterSlope, fillFraction |-> a.fillFraction,
             exes |-> a.stations, whys |-> [i \in 1..Len(a.stations) |-> 0],
             zees |-> a.elevations, project |-> TRUE, hasOverhangs |-> FALSE,
             rawSta |-> None, rawEl |-> None, stations |-> None,
             elevations |-> None, thwIndex |-> 0, bkfEl |-> None,
             bStations |-> None, bElevations |-> None, bkfA |-> None,
             bkfMeanD |-> None, bkfMaxD |-> None, bkfW |-> None, bkfWetP |-> None,
             bkfHydR |-> None, bkfStress |-> None, bkfQ |-> None,
             assigned |-> ConstructorAttributes, log |-> << >>,
             checkedSta |-> None, checkedEl |-> None, crossing |-> None,
             raised |-> NoExc]
      o1 == create_2d_form(o0)
      o2 == Then(o1, validate_geometry)
      o3 == Then(o2, check_sta_and_el)
      o4 == Then(o3, set_thw_index)
      o5 == IF o4.raised = NoExc THEN set_bkfEl(o4, a.bkfEl) ELSE o4
  IN Then(o5, calculate_bankfull_statistics)

(***************************************************************************)
(* bkf_binary_search: the pieces of its body.                              *)
(***************************************************************************)

MaxIterations == 1000

ExpansionFactor == 100

DefaultEpsilonDivisor == 1000

RtolInverse == 100000

\* epsilon = target/1000, in thousandths of the statistic's unit.
DefaultEpsilon(t) == t * (1000 \div DefaultEpsilonDivisor)

\* The comparison with the tolerance taken in whole units instead of
\* thousandths (a tolerance a thousand times too wide).
isclose_Wide(a, b, atol) ==
  Abs(a - b) <= atol + Abs(b) \div (RtolInverse \div 1000)

\* np.isclose(a, b, atol=epsilon): |a - b| <= atol + rtol*|b| with numpy's
\* default rtol = 1e-5; atol is in thousandths, a and b are whole units.
isclose(a, b, atol) ==
  Abs(a - b) <= (atol + Abs(b) \div (RtolInverse \div 1000)) \div 1000

\* The starting bottom: the lowest elevation, or the thalweg's when a thalweg
\* station was given and its elevation is higher.
\* The bottom that ignores the thalweg.
InitialBottom_Lowest(o) == SeqMin(o.elevations)

InitialBottom(o) ==
  LET lowest == SeqMin(o.elevations)
      thwEl == At(o.elevations, o.thwIndex)
  IN IF Truthy(o.thwStation) /\ thwEl > lowest THEN thwEl ELSE lowest

InitialTop(o) == SeqMax(o.elevations)

\* The loop test off by one: n <= 1000.
LoopContinues_OffByOne(isFound, count, hasBroken) ==
  ~isFound /\ count <= MaxIterations /\ ~hasBroken

\* while not found and n < 1000 (the break is the third way out).
LoopContinues(isFound, count, hasBroken) ==
  ~isFound /\ count < MaxIterations /\ ~hasBroken

\* The candidate taken at the bottom of the bracket instead of its middle.
Candidate_Bottom(lo, hi) == lo

\* self.bkfEl = (bottom + top)/2
Candidate(lo, hi) == (lo + hi) \div 2

\* The bottom kept while no upper bound is known.
RaisedBottom_OnlyBracketed(lo, cand, upperKnown) ==
  IF upperKnown THEN cand ELSE lo

\* bottom = self.bkfEl (line 425): the candidate becomes the bottom whether or
\* not an upper bound is known.
RaisedBottom(lo, cand, upperKnown) == cand

\* A top that comes down instead of going up.
ExpandedTop_Halved(hi) == hi \div 2

\* top = top * 2
ExpandedTop(hi) == hi * 2

\* top >= max(self.elevations)*10**2
ExpansionCapHit(hi, elevations) == hi >= SeqMax(elevations) * ExpansionFactor

\* The revert left out: bkfEl stays at the last candidate.
RevertedEl_Kept(saved, best) == best

\* self.bkfEl = saveEl
RevertedEl(saved, best) == saved

\* Line 434 names calculate_bankfull_statistics without calling it: the
\* statistics stay those of the last candidate.
RevertedStatistics(o) == o

\* The return ignoring returnFailed: the best-found elevation in every case.
ReturnValue_AlwaysBest(isFound, failedWanted, best) == best

\* The value returned.
ReturnValue(isFound, failedWanted, best) ==
  IF isFound THEN best ELSE IF failedWanted THEN best ELSE None

\* The line printed before returning.
PrintedLine(isFound) == IF isFound THEN "Converged" ELSE "Could not converge"

(***************************************************************************)
(* The inputs.                                                             *)
(***************************************************************************)

NumChannels == 7

\* Surveys, shot along a straight line, as positions along the line and
\* elevations:
\* 1 the symmetric trapezoid, 2 a flat bed, 3 a channel below the datum,
\* 4 a main channel with a higher secondary channel, 5 a channel with a bench
\* (the width jumps at elevation 1), 6 an undercut left bank (the stations
\* fold back, the polyline does not cross itself), 7 the same stations with a
\* polyline that crosses itself (segments 0 and 2), and beyond these a channel
\* that straddles the datum.
Channel(i) ==
  CASE i = 1 -> [stations |-> <<0, 2000, 4000, 6000, 8000>>,
                 elevations |-> <<5000, 1000, 0, 1000, 5000>>]
    [] i = 2 -> [stations |-> <<0, 4000, 8000>>,
                 elevations |-> <<2000, 2000, 2000>>]
    [] i = 3 -> [stations |-> <<0, 4000, 8000>>,
                 elevations |-> <<-1000, -5000, -1000>>]
    [] i = 4 -> [stations |-> <<0, 2000, 4000, 6000, 8000>>,
                 elevations |-> <<4000, 0, 3000, 1000, 4000>>]
    [] i = 5 -> [stations |-> <<0, 1000, 3000, 4000, 5000, 7000, 8000>>,
                 elevations |-> <<5000, 1000, 1000, 0, 1000, 1000, 5000>>]
    [] i = 6 -> [stations |-> <<0, 3000, 1000, 5000>>,
                 elevations |-> <<5000, 4000, 1000, 5000>>]
    [] i = 7 -> [stations |-> <<0, 3000, 1000, 5000>>,
                 elevations |-> <<5000, 0, 1000, 5000>>]
    [] OTHER -> [stations |-> <<0, 3000, 6000>>,
                 elevations |-> <<3000, -3000, 3000>>]

\* Bankfull elevations: absent, at the datum, at the shoulder of the trapezoid
\* and the bed of the flat channel, and mid bank.
BkfEls == {None, Some(0), Some(1000), Some(3000)}

ThwStations == {None, Some(6000)}

\* Water-surface slope and Manning's n, in thousandths.
Hydraulics ==
  {[waterSlope |-> None, manN |-> None],
   [waterSlope |-> Some(10), manN |-> None],
   [waterSlope |-> Some(10), manN |-> Some(35)]}

\* The surveys with folded stations, built to study the overhang handling.
OverhangStudy == {6, 7}

\* Fill fractions, in thousandths: cut, half, fill (the default) and 2, outside
\* the documented interval.
FillFractions == {0, 500, 1000, 2000}

DefaultFillFraction == 1000

\* The survey also built with a thalweg station at the first station (0) and
\* with one beyond the last station.
ThalwegStudy == {4}

EdgeThwStations == {Some(0), Some(9000)}

\* The optional arguments tried with survey c: the surveys of the overhang
\* study vary the fill fraction, the others the thalweg station and hydraulics.
OptionsFor(c) ==
  IF c \in OverhangStudy
  THEN {[bkfEl |-> b, thwStation |-> None, waterSlope |-> None, manN |-> None,
         fillFraction |-> f] : b \in {None, Some(4500)}, f \in FillFractions}
  ELSE {[bkfEl |-> b, thwStation |-> t, waterSlope |-> h.waterSlope,
         manN |-> h.manN, fillFraction |-> DefaultFillFraction] :
           b \in BkfEls, t \in ThwStations, h \in Hydraulics}
       \cup (IF c \in ThalwegStudy
             THEN {[bkfEl |-> b, thwStation |-> t, waterSlope |-> None,
                    manN |-> None, fillFraction |-> DefaultFillFraction] :
                      b \in {None}, t \in EdgeThwStations}
             ELSE {})

\* The searches asked for: a statistic, its target value and the tolerance
\* (None for the default, else in thousandths of a thousandth: 20000 is 0.02).
Requests ==
  {<<"bkfW", 6000, None>>, <<"bkfW", 1998, None>>, <<"bkfW", 1998, Some(20000)>>,
   <<"bkfW", 12000000, None>>, <<"bkfA", 12000000, None>>,
   <<"bkfMaxD", 1998, None>>, <<"bkfQ", 6000, None>>}

(***************************************************************************)
(* The state machine.                                                      *)
(***************************************************************************)

VARIABLES
  pc,               \* "new", "idle", "while", "returned" or "raised"
  ctorArgs,         \* the arguments of the constructor call
  xs,               \* the CrossSection
  attribute, target, epsilon, returnFailed,   \* the arguments of the search
  saveEl, bottom, top, found, foundUpperBound, n, foundEl,  \* its locals
  broke,            \* whether the loop was left by its break
  result, printed,  \* what the search returned and printed
  ppc,              \* where the owner of the Profile is
  df,               \* the table handed to Profile(...)
  profile,          \* the Profile
  loop,             \* the locals of the constructor's loop in progress
  method            \* the method of the last repair_flow_direction

pvars == <<ppc, df, profile, loop, method>>

vars == <<pc, ctorArgs, xs, attribute, target, epsilon, returnFailed, saveEl,
          bottom, top, found, foundUpperBound, n, foundEl, broke, result, printed,
          pvars>>

frame == <<attribute, target, epsilon, returnFailed, saveEl, bottom, top, found,
           foundUpperBound, n, foundEl, broke, result, printed>>

NoObject == [raised |-> NoExc]

NoFrame ==
  /\ attribute = "" /\ target = 0 /\ epsilon = None /\ returnFailed = FALSE
  /\ saveEl = None /\ bottom = 0 /\ top = 0 /\ found = FALSE
  /\ foundUpperBound = FALSE /\ n = 0 /\ foundEl = None /\ broke = FALSE
  /\ result = None /\ printed = ""

\* No Profile is in play.
NoProfile ==
  ppc = "off" /\ df = << >> /\ profile = << >> /\ loop = << >> /\ method = ""

Init ==
  /\ pc = "new"
  /\ \E c \in 1..NumChannels :
        \E opt \in OptionsFor(c) :
           ctorArgs = [stations |-> Channel(c).stations,
                       elevations |-> Channel(c).elevations, metric |-> FALSE,
                       bkfEl |-> opt.bkfEl, thwStation |-> opt.thwStation,
                       waterSlope |-> opt.waterSlope, manN |-> opt.manN,
                       fillFraction |-> opt.fillFraction]
  /\ xs = NoObject
  /\ NoFrame
  /\ NoProfile

\* CrossSection(...): the constructor returns the object or raises.
Construct ==
  /\ pc = "new"
  /\ xs' = NewCrossSection(ctorArgs)
  /\ pc' = IF xs'.raised = NoExc THEN "idle" ELSE "raised"
  /\ UNCHANGED <<ctorArgs, frame, pvars>>

\* The owner assigns the public attribute bkfEl.
AssignBkfEl ==
  /\ pc = "idle"
  /\ \E b \in BkfEls : xs' = [xs EXCEPT !.bkfEl = b]
  /\ UNCHANGED <<pc, ctorArgs, frame, pvars>>

\* The owner calls calculate_bankfull_statistics().
Recompute ==
  /\ pc = "idle"
  /\ xs' = calculate_bankfull_statistics(xs)
  /\ pc' = IF xs'.raised = NoExc THEN "idle" ELSE "raised"
  /\ UNCHANGED <<ctorArgs, frame, pvars>>

\* bkf_binary_search(attribute, target, epsilon, returnFailed): lines 390-411.
BeginSearch ==
  /\ pc = "idle"
  /\ \E r \in Requests, rf \in BOOLEAN :
        /\ attribute' = r[1]
        /\ target' = r[2]
        /\ epsilon' = IF r[3] = None THEN Some(DefaultEpsilon(r[2])) ELSE r[3]
        /\ returnFailed' = rf
  /\ saveEl' = xs.bkfEl
  /\ bottom' = InitialBottom(xs)
  /\ top' = InitialTop(xs)
  /\ found' = FALSE
  /\ foundUpperBound' = FALSE
  /\ n' = 0
  /\ broke' = FALSE
  /\ pc' = "while"
  /\ UNCHANGED <<ctorArgs, xs, foundEl, result, printed, pvars>>

\* One pass of the while loop: lines 413-430.
SearchIter ==
  /\ pc = "while"
  /\ LoopContinues(found, n, broke)
  /\ n' = n + 1
  /\ LET cand == Candidate(bottom, top)
         o == calculate_bankfull_statistics([xs EXCEPT !.bkfEl = Some(cand)])
         calculatedValue == o[attribute]
     IN IF o.raised # NoExc
        THEN /\ xs' = o
             /\ pc' = "raised"
             /\ UNCHANGED <<bottom, top, found, foundUpperBound, broke>>
        ELSE IF calculatedValue = None
        THEN \* np.isclose(None, target): a TypeError
             /\ xs' = [o EXCEPT !.raised = "TypeError"]
             /\ pc' = "raised"
             /\ UNCHANGED <<bottom, top, found, foundUpperBound, broke>>
        ELSE /\ xs' = o
             /\ pc' = "while"
             /\ IF isclose(Val(calculatedValue), target, Val(epsilon))
                THEN /\ found' = TRUE
                     /\ UNCHANGED <<bottom, top, foundUpperBound, broke>>
                ELSE IF Val(calculatedValue) > target
                THEN /\ top' = cand
                     /\ foundUpperBound' = TRUE
                     /\ UNCHANGED <<bottom, found, broke>>
                ELSE /\ bottom' = RaisedBottom(bottom, cand, foundUpperBound)
                     /\ IF ~foundUpperBound
                        THEN /\ top' = ExpandedTop(top)
                             /\ broke' = ExpansionCapHit(top', xs.elevations)
                        ELSE UNCHANGED <<top, broke>>
                     /\ UNCHANGED <<found, foundUpperBound>>
  /\ UNCHANGED <<ctorArgs, attribute, target, epsilon, returnFailed, saveEl,
                 foundEl, result, printed, pvars>>

\* After the loop: lines 432-444.
SearchReturn ==
  /\ pc = "while"
  /\ ~LoopContinues(found, n, broke)
  /\ foundEl' = xs.bkfEl
  /\ xs' = RevertedStatistics([xs EXCEPT !.bkfEl = RevertedEl(saveEl, xs.bkfEl)])
  /\ printed' = PrintedLine(found)
  /\ result' = ReturnValue(found, returnFailed, foundEl')
  /\ pc' = "returned"
  /\ UNCHANGED <<ctorArgs, attribute, target, epsilon, returnFailed, saveEl,
                 bottom, top, found, foundUpperBound, n, broke, pvars>>

\* The caller takes the result; the call's frame is gone.
Resume ==
  /\ pc = "returned"
  /\ pc' = "idle"
  /\ attribute' = "" /\ target' = 0 /\ epsilon' = None /\ returnFailed' = FALSE
  /\ saveEl' = None /\ bottom' = 0 /\ top' = 0 /\ found' = FALSE
  /\ foundUpperBound' = FALSE /\ n' = 0 /\ foundEl' = None /\ broke' = FALSE
  /\ result' = None /\ printed' = ""
  /\ UNCHANGED <<ctorArgs, xs, pvars>>

Next ==
  \/ Construct
  \/ AssignBkfEl
  \/ Recompute
  \/ BeginSearch
  \/ SearchIter
  \/ SearchReturn
  \/ Resume

Spec == Init /\ [][Next]_vars

(***************************************************************************)
(* Profile (streamprofiles.py).  A table is held by its substrate columns  *)
(* (cols), the columns populated on each row (calls) and the filled water  *)
(* surface of each row (ws).  Row i of the code is element i + 1 here.     *)
(***************************************************************************)

substrateCols == <<"Riffle", "Run", "Pool", "Glide">>

\* self.haveCols: the substrate columns of the table, in the order above.
haveCols(cols) == SelectSeq(substrateCols, LAMBDA c : c \in cols)

\* currentMorph = None
NoMorph == "None"

\* not pd.isnull(self.filldf[col][i])
Populated(calls, col, i) == col \in calls[i + 1]

RECURSIVE DeleteIsolated(_, _, _, _)
\* The check for isolation of row i, from column have[k] on: a call with no
\* populated neighbour in its column is deleted.
DeleteIsolated(calls, have, i, k) ==
  IF k > Len(have) THEN calls
  ELSE LET col == have[k]
           left == i - 1 >= 0 /\ Populated(calls, col, i - 1)
           right == i + 1 < Len(calls) /\ Populated(calls, col, i + 1)
           kept == IF Populated(calls, col, i) /\ ~left /\ ~right
                   THEN [calls EXCEPT ![i + 1] = @ \ {col}]
                   ELSE calls
       IN DeleteIsolated(kept, have, i, k + 1)

\* The body of the loop of validate_substrate for row i: the check for
\* overpopulation, then the check for isolation.
ValidateRow(o, i) ==
  IF Cardinality(o.calls[i + 1]) > 2
  THEN [o EXCEPT !.raised = "InputError"]
  ELSE [o EXCEPT !.calls = DeleteIsolated(@, o.haveCols, i, 1)]

\* CPython keeps one object for each integer from -5 to 256.
SmallIntMin == -5

SmallIntMax == 256

\* a is b, for two integers: beyond the small integers the interpreter
\* decides whether equal integers are one object (intsShared).
SameObject(a, b, intsShared) ==
  a = b /\ ((SmallIntMin <= a /\ a <= SmallIntMax) \/ intsShared)

\* Feature(df = self.filldf[first : last + 1], morphType): its indices.
Feature(morphType, first, last) ==
  [morphType |-> morphType, first |-> first, last |-> last]

RECURSIVE FirstPopulated(_, _, _, _, _)
\* The first column of have, from have[k] on, populated on row i and other
\* than skip; NoMorph if there is none.
FirstPopulated(have, calls, i, skip, k) ==
  IF k > Len(have) THEN NoMorph
  ELSE IF Populated(calls, have[k], i) /\ have[k] # skip THEN have[k]
  ELSE FirstPopulated(have, calls, i, skip, k + 1)

\* The body of the loop of create_features for row i.
FeatureRow(st, have, calls, i, intsShared) ==
  LET emit(t, lastRow) ==
        [t EXCEPT !.featDict[t.currentMorph] =
                     Append(@, Feature(t.currentMorph, t.startInd, lastRow))]
      row ==
        IF st.currentMorph = NoMorph
        THEN \* except ValueError
             LET m == FirstPopulated(have, calls, i, NoMorph, 1)
             IN IF m = NoMorph THEN st
                ELSE [st EXCEPT !.currentMorph = m, !.startInd = i]
        ELSE IF ~Populated(calls, st.currentMorph, i)
        THEN \* gap switch
             LET m == FirstPopulated(have, calls, i, NoMorph, 1)
             IN [emit(st, i - 1) EXCEPT !.currentMorph = m,
                                        !.startInd = IF m = NoMorph THEN -1 ELSE i]
        ELSE \* smooth switch
             LET m == FirstPopulated(have, calls, i, st.currentMorph, 1)
             IN IF m = NoMorph THEN st
                ELSE [emit(st, i) EXCEPT !.currentMorph = m, !.startInd = i]
  IN IF SameObject(i, Len(calls) - 1, intsShared) /\ row.currentMorph # NoMorph
     THEN emit(row, i)
     ELSE row

\* The locals of create_features before its loop.
FeatureLocals(have) ==
  [i |-> 0, featDict |-> [m \in {have[k] : k \in 1..Len(have)} |-> << >>],
   currentMorph |-> NoMorph, startInd |-> 0]

RECURSIVE Flatten(_, _, _)
Flatten(features, keys, k) ==
  IF k > Len(keys) THEN << >>
  ELSE features[keys[k]] \o Flatten(features, keys, k + 1)

\* The place sorted() gives f among features already sorted: after those
\* that start no later.
InsertByStart(sorted, f) ==
  SelectSeq(sorted, LAMBDA g : g.first <= f.first) \o <<f>>
     \o SelectSeq(sorted, LAMBDA g : g.first > f.first)

RECURSIVE SortByStart(_)
SortByStart(feats) ==
  IF feats = << >> THEN << >>
  ELSE InsertByStart(SortByStart(SubSeq(feats, 1, Len(feats) - 1)),
                     feats[Len(feats)])

\* ordered_features: the features of every key, in the order of the keys,
\* sorted by their first index.
ordered_features(features, keys) == SortByStart(Flatten(features, keys, 1))

RECURSIVE Gaps(_, _, _, _)
\* The loop of _make_unclassified from oFeats[i] on.
Gaps(oFeats, i, rows, intsShared) ==
  IF i > Len(oFeats) THEN << >>
  ELSE (IF i < Len(oFeats)
        THEN IF oFeats[i].last # oFeats[i + 1].first
             THEN <<Feature("Unclassified", oFeats[i].last, oFeats[i + 1].first)>>
             ELSE << >>
        ELSE \* except IndexError
             IF ~SameObject(oFeats[i].last, rows - 1, intsShared)
             THEN <<Feature("Unclassified", oFeats[i].last, rows - 1)>>
             ELSE << >>)
       \o Gaps(oFeats, i + 1, rows, intsShared)

\* _make_unclassified: the features with the key 'Unclassified' added.
make_unclassified(featDict, have, rows, intsShared) ==
  LET oFeats == ordered_features(featDict, have)
      unclassified ==
        IF oFeats = << >> THEN <<Feature("Unclassified", 0, rows - 1)>>
        ELSE (IF oFeats[1].first # 0
              THEN <<Feature("Unclassified", 0, oFeats[1].first)>>
              ELSE << >>)
             \o Gaps(oFeats, 1, rows, intsShared)
  IN [key \in DOMAIN featDict \cup {"Unclassified"} |->
        IF key = "Unclassified" THEN unclassified ELSE featDict[key]]

\* Profile(df) up to the call of validate_substrate.
NewProfile(t) ==
  [haveCols |-> haveCols(t.cols),
   keys |-> Append(haveCols(t.cols), "Unclassified"),
   calls |-> t.calls,
   ws |-> t.ws,
   features |-> << >>,
   raised |-> NoExc]

\* Both methods scan the rows downstream.
controlDict_Forward(m, rows) == [k \in 1..rows |-> k - 1]

\* controlDict[method]: the rows in the order the loop visits them, upstream
\* from the last row for 'raise', downstream from row 0 for 'lower'.
controlDict(m, rows) ==
  IF m = "raise" THEN [k \in 1..rows |-> rows - k] ELSE [k \in 1..rows |-> k - 1]

\* The body of the loop of repair_flow_direction for row i; the last row has
\* no row after it (IndexError, passed).
RepairRow(ws, i, m) ==
  IF i + 1 < Len(ws) /\ ws[i + 1] < ws[i + 2]
  THEN IF m = "raise" THEN [ws EXCEPT ![i + 1] = ws[i + 2]]
       ELSE [ws EXCEPT ![i + 2] = ws[i + 1]]
  ELSE ws

Methods == {"raise", "lower"}

(***************************************************************************)
(* The tables tried.                                                       *)
(***************************************************************************)

MaxRows == 3

MaxSurfaceRows == 4

MaxLevel == 2

LongRows == 258

\* Tables with three substrate columns and every pattern of calls.
SubstrateTables ==
  UNION {{[cols |-> {"Riffle", "Run", "Pool"}, calls |-> c,
           ws |-> [i \in 1..rows |-> 0], intsShared |-> FALSE] :
             c \in [1..rows -> SUBSET {"Riffle", "Run", "Pool"}]} :
         rows \in 1..MaxRows}

\* Tables without substrate columns and every water surface.
SurfaceTables ==
  UNION {{[cols |-> {}, calls |-> [i \in 1..rows |-> {}], ws |-> w,
           intsShared |-> FALSE] : w \in [1..rows -> 0..MaxLevel]} :
         rows \in 1..MaxSurfaceRows}

\* Long tables: a riffle all along; a riffle, then a pool from row `from` on.
LongTables ==
  {[cols |-> {"Riffle", "Pool"},
    calls |-> [i \in 1..LongRows |->
                 IF i - 1 < from THEN {"Riffle"}
                 ELSE IF i - 1 = from THEN {"Riffle", "Pool"} ELSE {"Pool"}],
    ws |-> [i \in 1..LongRows |-> 0], intsShared |-> shared] :
       from \in {2, LongRows - 2, LongRows}, shared \in BOOLEAN}

Tables == SubstrateTables \cup SurfaceTables \cup LongTables

(***************************************************************************)
(* The Profile's state machine.                                            *)
(***************************************************************************)

cvars == <<pc, ctorArgs, xs, frame>>

ProfileInit ==
  /\ pc = "off" /\ ctorArgs = << >> /\ xs = NoObject /\ NoFrame
  /\ ppc = "new"
  /\ df \in Tables
  /\ profile = << >>
  /\ loop = << >>
  /\ method = ""

\* Profile(df): lines 44-64, up to the loop of validate_substrate.
ConstructProfile ==
  /\ ppc = "new"
  /\ profile' = NewProfile(df)
  /\ loop' = [i |-> 0]
  /\ ppc' = "validate"
  /\ UNCHANGED <<df, method, cvars>>

\* One pass of the loop of validate_substrate; after the last row the
\* constructor goes on to create_features.
ValidateSubstrate ==
  /\ ppc = "validate"
  /\ profile' = ValidateRow(profile, loop.i)
  /\ IF profile'.raised # NoExc
     THEN ppc' = "raised" /\ UNCHANGED loop
     ELSE IF loop.i + 1 < Len(profile.calls)
     THEN ppc' = "validate" /\ loop' = [i |-> loop.i + 1]
     ELSE ppc' = "features" /\ loop' = FeatureLocals(profile.haveCols)
  /\ UNCHANGED <<df, method, cvars>>

\* One pass of the loop of create_features; after the last row the features
\* are stored and _make_unclassified completes them.
CreateFeatures ==
  /\ ppc = "features"
  /\ LET st == FeatureRow(loop, profile.haveCols, profile.calls, loop.i,
                          df.intsShared)
     IN IF loop.i + 1 < Len(profile.calls)
        THEN /\ loop' = [st EXCEPT !.i = loop.i + 1]
             /\ ppc' = "features"
             /\ UNCHANGED profile
        ELSE /\ loop' = << >>
             /\ ppc' = "built"
             /\ profile' = [profile EXCEPT !.features =
                              make_unclassified(st.featDict, profile.haveCols,
                                                Len(profile.calls),
                                                df.intsShared)]
  /\ UNCHANGED <<df, method, cvars>>

\* The owner calls repair_flow_direction(method): lines 347-349.
RepairFlowDirection ==
  /\ ppc = "built"
  /\ \E m \in Methods :
        loop' = [k |-> 1, method |-> m, before |-> profile.ws,
                 order |-> controlDict(m, Len(profile.ws))]
  /\ ppc' = "repair"
  /\ UNCHANGED <<df, profile, method, cvars>>

\* One pass of the loop of repair_flow_direction; after the last one the
\* call returns.
RepairFlowRow ==
  /\ ppc = "repair"
  /\ profile' = [profile EXCEPT
                   !.ws = RepairRow(@, loop.order[loop.k], loop.method)]
  /\ IF loop.k < Len(loop.order)
     THEN /\ loop' = [loop EXCEPT !.k = @ + 1]
          /\ UNCHANGED <<ppc, method>>
     ELSE /\ loop' = << >>
          /\ ppc' = "built"
          /\ method' = loop.method
  /\ UNCHANGED <<df, cvars>>

ProfileNext ==
  \/ ConstructProfile
  \/ ValidateSubstrate
  \/ CreateFeatures
  \/ RepairFlowDirection
  \/ RepairFlowRow

ProfileSpec == ProfileInit /\ [][ProfileNext]_vars

(***************************************************************************)
(* Properties.                                                             *)
(***************************************************************************)

StatNames ==
  {"bStations", "bElevations", "bkfA", "bkfMeanD", "bkfMaxD", "bkfW", "bkfWetP",
   "bkfHydR", "bkfStress", "bkfQ"}

\* The bankfull series and statistics an object holds.
Statistics(o) == [k \in StatNames |-> o[k]]

\* The search is in progress or has just ended (its frame is live).
InSearch == attribute # ""

\* The chosen statistic recomputed at elevation el.
StatisticAt(el) ==
  calculate_bankfull_statistics([xs EXCEPT !.bkfEl = el])[attribute]

\* C1: a search that returns leaves bkfEl as it was at the call: saveEl takes
\* the object's bkfEl at the call, keeps it through the loop, and the return
\* puts it back (None included).
C1_BkfElRestored ==
  [][/\ (pc = "idle" /\ pc' = "while" => saveEl' = xs.bkfEl)
     /\ (pc = "while" /\ pc' = "while" => saveEl' = saveEl)
     /\ (pc = "while" /\ pc' = "returned" => xs'.bkfEl = saveEl)]_vars

C1_Witness ==
  pc = "returned" /\ saveEl = None /\ foundEl # None /\ xs.bkfEl = None

\* C2: after the search returns, the series and statistics are those of a
\* recompute at the bkfEl held on entry (now restored).
C2_StatisticsReverted ==
  pc = "returned" => Statistics(xs) = Statistics(calculate_bankfull_statistics(xs))

\* C3: the search never ends by raising.
C3_SearchNeverRaises == ~(pc = "raised" /\ InSearch)

\* C4: on convergence the statistic at the returned elevation is within
\* epsilon of the target.
C4_ConvergedWithinEpsilon ==
  (pc = "returned" /\ found) =>
     1000 * Abs(Val(StatisticAt(foundEl)) - target) <= Val(epsilon)

\* C5: the search terminates: at most 1000 candidates are evaluated; every
\* pass of the loop counts one more, and is made only while no candidate was
\* accepted, the expansion cap was not hit and fewer than 1000 passes were
\* made; the loop is left only by the return or by an exception, and for the
\* return only for one of these three reasons.  The counter is the variant: it
\* grows with every pass and never exceeds 1000.
C5_SearchTerminates ==
  /\ [](n <= MaxIterations)
  /\ [][pc = "while" =>
          \/ /\ pc' \in {"while", "raised"}
             /\ ~found /\ ~broke /\ n < MaxIterations
             /\ n' = n + 1
          \/ /\ pc' = "returned"
             /\ found \/ broke \/ n = MaxIterations
             /\ n' = n]_vars

C5_Witness == pc = "returned" /\ n = MaxIterations /\ ~found /\ ~broke

\* C6 (as claimed): the result alone tells a converged search from a failed
\* one.
C6_ResultTellsConvergence == pc = "returned" => (found <=> result # None)

\* C6 (amended): a failed search returns None unless returnFailed, and then
\* the bare best-found elevation, as a converged search does; the printed
\* line is what tells the two apart.
C6_ResultAndPrintedLine ==
  pc = "returned" =>
     /\ (~found /\ ~returnFailed => result = None)
     /\ (~found /\ returnFailed => result = foundEl /\ result # None)
     /\ (found => result = foundEl /\ result # None)
     /\ (found <=> printed = "Converged")
     /\ (~found <=> printed = "Could not converge")

C6_Witness == pc = "returned" /\ ~found /\ returnFailed /\ result # None

\* A pass of the loop that found the value below the target with no upper bound
\* known.
ExpansionStep ==
  pc = "while" /\ pc' = "while" /\ n' = n + 1 /\ ~found' /\ ~foundUpperBound'

\* C7: such a pass doubles top, the doubled top is strictly higher, and the
\* search aborts exactly when it has reached 100 times the highest elevation.
C7_ExpansionProbesUp ==
  [][ExpansionStep =>
        /\ top' = 2 * top
        /\ top' > top
        /\ (broke' <=> top' >= ExpansionFactor * SeqMax(xs.elevations))]_vars

\* The search was asked for the value the statistic has at the (valid)
\* bankfull elevation held on entry.
IdempotenceCase ==
  LET o == calculate_bankfull_statistics([xs EXCEPT !.bkfEl = saveEl])
  IN Truthy(saveEl) /\ o.raised = NoExc /\ o[attribute] = Some(target)

TrapezoidSearch ==
  /\ ctorArgs.stations = <<0, 2000, 4000, 6000, 8000>>
  /\ ctorArgs.elevations = <<5000, 1000, 0, 1000, 5000>>
  /\ ctorArgs.waterSlope = None
  /\ attribute = "bkfW" /\ target = 6000 /\ epsilon = Some(6000)

\* C9: that search does not raise, does not hit the expansion cap, and returns
\* converged within the iteration cap at an elevation within 0.006 of 3 where
\* the width is within epsilon of 6.
C9_TrapezoidWidthSix ==
  TrapezoidSearch =>
     /\ pc # "raised"
     /\ ~broke
     /\ (pc = "returned" =>
           /\ found /\ n < MaxIterations
           /\ result = foundEl
           /\ Abs(Val(foundEl) - 3000) <= 6
           /\ 1000 * Abs(Val(StatisticAt(foundEl)) - 6000) <= 6000)

C9_Witness ==
  TrapezoidSearch /\ pc = "returned" /\ found /\ ctorArgs.thwStation = None

\* Each statistic is null exactly when one of its inputs is absent.
NullIffAbsent(o) ==
  /\ \A k \in StatNames \ {"bkfStress", "bkfQ"} : (o[k] = None <=> o.bkfEl = None)
  /\ (o.bkfStress = None <=> (o.bkfEl = None \/ o.waterSlope = None))
  /\ (o.bkfQ = None <=> (o.bkfEl = None \/ o.waterSlope = None \/ o.manN = None))

\* C10: after a construction or a recompute that completes, each statistic is
\* null exactly when one of its inputs is absent (a configured 0 is present).
C10_NullIffInputAbsent ==
  [][((Construct \/ Recompute) /\ pc' = "idle") => NullIffAbsent(xs')]_vars

(***************************************************************************)
(* Properties of the construction and of the recomputation.                *)
(***************************************************************************)

\* A step that computes the statistics outside a search: the constructor, or a
\* call of calculate_bankfull_statistics.
RecomputeStep == Construct \/ Recompute

\* The step got as far as computing the statistics (the constructor's pipeline
\* reached the assignment of bkfEl).
StatisticsComputed(o) == "bkfEl" \in o.assigned

\* Elevation el is valid for the channel of o: above the lowest point and above
\* the thalweg.
ValidElevation(o, el) ==
  el > SeqMin(o.elevations) /\ At(o.elevations, o.thwIndex) < el

\* No bankfull series or statistic came out of the step from before to after.
NothingProduced(before, after) ==
  IF pc = "new"
  THEN StatNames \cap after.assigned = {}
  ELSE Statistics(after) = Statistics(before)

\* C11: whenever the statistics are computed with a bankfull elevation E that
\* is set, E at or below the lowest elevation ends in the below-channel error,
\* otherwise a thalweg at or above E ends in the thalweg-above-bankfull error;
\* the two are distinct, and in neither case does a series or statistic come out.
C11_ClipperErrors ==
  [][(RecomputeStep /\ StatisticsComputed(xs') /\ xs'.bkfEl # None) =>
        LET E == Val(xs'.bkfEl)
            below == E <= SeqMin(xs'.elevations)
            thalwegAbove == ~below /\ At(xs'.elevations, xs'.thwIndex) >= E
        IN /\ (below => xs'.raised = "BelowChannel")
           /\ (thalwegAbove => xs'.raised = "ThalwegAboveBankfull")
           /\ (below \/ thalwegAbove =>
                 pc' = "raised" /\ NothingProduced(xs, xs'))]_vars

\* The statistics are computed with a valid bankfull elevation and a slope.
StressCase(o) ==
  /\ StatisticsComputed(o)
  /\ o.bkfEl # None /\ ValidElevation(o, Val(o.bkfEl))
  /\ o.waterSlope # None

\* unit weight of water * mean depth * slope, in thousandths.
ShearStress(gammaWater, meanD, slope) ==
  RoundDiv(RoundDiv(gammaWater * meanD, 1000) * slope, 1000)

\* C12: with a valid bankfull elevation and a water-surface slope configured,
\* computing the statistics completes without error and leaves bkfStress at
\* unit weight of water * mean depth * slope.
C12_ShearStressComputed ==
  [][(RecomputeStep /\ StressCase(xs')) =>
        /\ xs'.raised = NoExc
        /\ xs'.bkfStress = Some(ShearStress(unitDict(xs'.metric).gammaWater,
                                            Val(xs'.bkfMeanD), Val(xs'.waterSlope)))]_vars

\* C13: with a valid bankfull elevation, a slope and a roughness configured,
\* the construction and every recompute reach the discharge step and leave bkfQ
\* at Manning's equation on the area and hydraulic radius of that recompute.
C13_DischargeComputed ==
  [][(RecomputeStep /\ StressCase(xs') /\ xs'.manN # None) =>
        /\ xs'.raised = NoExc
        /\ "bkfQ" \in xs'.assigned
        /\ xs'.bkfQ = Some(ManningFlow(unitDict(xs'.metric).manningsNumerator,
                                       Val(xs'.manN), Val(xs'.bkfA),
                                       Val(xs'.bkfHydR), Val(xs'.waterSlope)))]_vars

ReservedFields == {"floodProneEl", "floodProneWidth", "entrainedParticleSize"}

\* C14: after the construction and after every recompute that completes, the
\* three reserved fields exist on the object and read as null.
C14_ReservedFieldsNull ==
  [][(RecomputeStep /\ pc' = "idle") =>
        \A k \in ReservedFields : k \in xs'.assigned /\ xs'[k] = None]_vars

\* A CrossSection was constructed and is held by its owner.
Built == pc \in {"idle", "while", "returned"}

\* The place (from 1) of a step in the record of the constructor's steps, 0 if
\* it was not taken.
Position(log, step) ==
  IF \E i \in 1..Len(log) : log[i] = step
  THEN CHOOSE i \in 1..Len(log) : log[i] = step
  ELSE 0

\* C15 (as claimed): the self-intersection check runs after the overhang
\* resolution and is applied to the resolved series.
C15_ValidatesResolved ==
  Built =>
    /\ Position(xs.log, "check_sta_and_el") < Position(xs.log, "validate_geometry")
    /\ xs.checkedSta = xs.stations /\ xs.checkedEl = xs.elevations

\* C15 (amended): the self-intersection check runs before the overhang
\* resolution and is applied to the raw series, so that the raw polyline of
\* every constructed CrossSection has been checked and does not cross itself.
C15_ValidatesRaw ==
  Built =>
    /\ 0 < Position(xs.log, "validate_geometry")
    /\ Position(xs.log, "validate_geometry") < Position(xs.log, "check_sta_and_el")
    /\ xs.checkedSta = xs.rawSta /\ xs.checkedEl = xs.rawEl
    /\ \A i, j \in 0..(Len(xs.rawSta) - 2) :
          j >= i + 2 =>
             ~segments_intersect(SegmentStart(xs.rawSta, xs.rawEl, i),
                                 SegmentEnd(xs.rawSta, xs.rawEl, i),
                                 SegmentStart(xs.rawSta, xs.rawEl, j),
                                 SegmentEnd(xs.rawSta, xs.rawEl, j))

C15_Witness ==
  Built /\ xs.hasOverhangs /\ xs.stations # xs.rawSta /\ xs.checkedSta = xs.rawSta

\* The supplied bankfull elevation is inconsistent with the channel: at or
\* below its lowest point, or not above the thalweg.
InconsistentBkfEl(o, el) == el # None /\ ~ValidElevation(o, Val(el))

\* C16: construction fails atomically: a self-intersecting polyline or an
\* inconsistent bankfull elevation makes the constructor raise, and a
\* constructor that raised returns no object; the self-intersection error names
\* two non-adjacent segments that do intersect and is raised before the
\* resolved series, the thalweg index, the bankfull elevation or any statistic
\* is assigned.
C16_ConstructionAtomic ==
  [][Construct =>
        /\ (xs'.raised # NoExc <=> pc' = "raised")
        /\ (CrossingPairs(xs'.rawSta, xs'.rawEl) # {} =>
              xs'.raised = "SelfIntersecting")
        /\ (xs'.raised = "SelfIntersecting" =>
              /\ xs'.crossing \in CrossingPairs(xs'.rawSta, xs'.rawEl)
              /\ xs'.assigned \cap ({"stations", "elevations", "thwIndex", "bkfEl"}
                                      \cup StatNames) = {})
        /\ (StatisticsComputed(xs') /\ InconsistentBkfEl(xs', ctorArgs.bkfEl) =>
              xs'.raised # NoExc)]_vars

\* C17: once the constructor has validated the geometry, hasOverhangs is true
\* exactly when some raw station falls back behind the one before it; an
\* overhang alone is not fatal (the constructor goes on to resolve it); raw
\* stations 0, 3, 1, 5 give hasOverhangs true.
C17_HasOverhangsIffFolded ==
  (pc # "new" /\ Position(xs.log, "validate_geometry") > 0) =>
     /\ (xs.hasOverhangs <=>
           \E i \in 1..(Len(xs.rawSta) - 1) : xs.rawSta[i + 1] < xs.rawSta[i])
     /\ (xs.hasOverhangs /\ xs.raised # "SelfIntersecting" =>
           Position(xs.log, "check_sta_and_el") > 0)
     /\ (xs.rawSta = <<0, 3000, 1000, 5000>> => xs.hasOverhangs)

C17_Witness ==
  /\ Built /\ xs.rawSta = <<0, 3000, 1000, 5000>> /\ xs.hasOverhangs
  /\ Position(xs.log, "check_sta_and_el") > 0

\* C18: the resolved series of a constructed CrossSection has as many stations
\* as elevations, stations that never fall back, and no more points than the
\* raw series; when the raw stations never fall back it is the raw series.
C18_ResolvedSeries ==
  Built =>
     /\ Len(xs.stations) = Len(xs.elevations)
     /\ \A i \in 1..(Len(xs.stations) - 1) : xs.stations[i] <= xs.stations[i + 1]
     /\ Len(xs.stations) <= Len(xs.rawSta)
     /\ ((\A i \in 1..(Len(xs.rawSta) - 1) : xs.rawSta[i] <= xs.rawSta[i + 1]) =>
           /\ xs.stations = xs.rawSta /\ xs.elevations = xs.rawEl
           /\ xs.stations[1] = xs.rawSta[1]
           /\ xs.stations[Len(xs.stations)] = xs.rawSta[Len(xs.rawSta)])

C18_Witness ==
  Built /\ xs.hasOverhangs /\ Len(xs.stations) < Len(xs.rawSta)

\* C19: a constructor given a fill fraction outside [0, 1] fails with the
\* invalid-parameter error and builds nothing.
C19_FillFractionValidated ==
  (pc # "new" /\ ctorArgs.fillFraction \notin 0..1000) =>
     /\ pc = "raised" /\ xs.raised = "InvalidParameter"
     /\ xs.assigned \cap {"rawSta", "rawEl", "stations", "elevations"} = {}

\* C20: on a survey with an overhang the resolved elevations are those of the
\* blend at the configured fill fraction: the lower of the conflicting
\* elevations at 0, the higher at 1, linear in between.
C20_FillFractionBlends ==
  (Built /\ xs.hasOverhangs /\ xs.fillFraction \in 0..1000) =>
     xs.elevations = RemoveFrom(xs.rawSta, xs.rawEl, 2, <<xs.rawSta[1]>>,
                                <<xs.rawEl[1]>>, xs.fillFraction)[2]

(***************************************************************************)
(* Properties of the thalweg index and of the search's bounds.             *)
(***************************************************************************)

\* C21: the thalweg index of a constructed CrossSection is an index into the
\* resolved series: that of the station nearest to the supplied thalweg
\* station when one was supplied within the surveyed range (station 0
\* included), else that of the lowest elevation, the leftmost on ties.
C21_ThalwegIndexChosen ==
  Built =>
    LET last == Len(xs.stations) - 1
        supplied == xs.thwStation # None
        inRange == /\ supplied
                   /\ At(xs.stations, 0) <= Val(xs.thwStation)
                   /\ Val(xs.thwStation) <= At(xs.stations, last)
        lowest == SeqMin(xs.elevations)
    IN /\ xs.thwIndex \in 0..last
       /\ IF inRange
          THEN \A j \in 0..last :
                  Abs(At(xs.stations, xs.thwIndex) - Val(xs.thwStation))
                     <= Abs(At(xs.stations, j) - Val(xs.thwStation))
          ELSE /\ At(xs.elevations, xs.thwIndex) = lowest
               /\ \A j \in 0..(xs.thwIndex - 1) : At(xs.elevations, j) # lowest

\* C22: statistics never go stale: whenever the object can be observed (after
\* construction, after bkfEl was changed, after a search returned) its
\* bankfull series and statistics are those of a full recompute at its
\* current bkfEl.
C22_StatisticsNeverStale ==
  (pc \in {"idle", "returned"} /\ StatisticsComputed(xs)) =>
     LET fresh == calculate_bankfull_statistics(xs)
     IN /\ fresh.raised = NoExc
        /\ Statistics(xs) = Statistics(fresh)

\* A pass of the loop that neither converged nor raised, by the side of the
\* target its computed value fell on.
LoopStep == pc = "while" /\ pc' = "while" /\ n' = n + 1

Overestimate == LoopStep /\ ~found' /\ Val(xs'[attribute]) > target

Underestimate == LoopStep /\ ~found' /\ Val(xs'[attribute]) <= target

\* C23 (as stated): an overestimate makes the candidate the new top, marks the
\* upper bound found and leaves bottom; an underestimate replaces bottom by
\* the candidate only if an upper bound is known, and while none is known it
\* only doubles top and leaves bottom.
C23_BottomKeptWhileUnbounded ==
  [][/\ (Overestimate =>
            top' = Val(xs'.bkfEl) /\ foundUpperBound' /\ bottom' = bottom)
     /\ (Underestimate /\ foundUpperBound =>
            bottom' = Val(xs'.bkfEl) /\ top' = top)
     /\ (Underestimate /\ ~foundUpperBound =>
            bottom' = bottom /\ top' = 2 * top)]_vars

\* C23 (amended): an overestimate makes the candidate the new top, marks the
\* upper bound found and leaves bottom; an underestimate always replaces
\* bottom by the candidate, leaves top when an upper bound is known and
\* doubles top when none is.
C23_BoundUpdates ==
  [][/\ (Overestimate =>
            top' = Val(xs'.bkfEl) /\ foundUpperBound' /\ bottom' = bottom)
     /\ (Underestimate =>
            bottom' = Val(xs'.bkfEl) /\ foundUpperBound' = foundUpperBound)
     /\ (Underestimate /\ foundUpperBound => top' = top)
     /\ (Underestimate /\ ~foundUpperBound => top' = 2 * top)]_vars

C23_Witness ==
  /\ pc = "while" /\ n = 1 /\ ~found /\ ~foundUpperBound
  /\ bottom > InitialBottom(xs)
  /\ xs.bkfEl = Some(bottom)

\* C24: on entry to the search bottom is the lowest resolved elevation,
\* raised to the elevation at the thalweg index exactly when a thalweg
\* station was supplied and that elevation is higher; top is the highest
\* resolved elevation; the first candidate is the midpoint of the two.
C24_InitialBounds ==
  [][/\ (pc = "idle" /\ pc' = "while" =>
           LET lowest == SeqMin(xs.elevations)
               thwEl == At(xs.elevations, xs.thwIndex)
           IN /\ bottom' = IF xs.thwStation # None /\ thwEl > lowest
                           THEN thwEl ELSE lowest
              /\ top' = SeqMax(xs.elevations))
     /\ (pc = "while" /\ n = 0 /\ n' = 1 =>
           xs'.bkfEl = Some((bottom + top) \div 2))]_vars

C24_Witness ==
  /\ pc = "while" /\ n = 1
  /\ xs.thwStation # None
  /\ InitialBottom(xs) > SeqMin(xs.elevations)
  /\ xs.bkfEl = Some((InitialBottom(xs) + InitialTop(xs)) \div 2)

\* C25: at the start of every pass bottom <= top; the candidate of the pass
\* lies in [bottom, top] and is not below the bottom the search started with;
\* and once an upper bound is found the interval only shrinks.
C25_BracketInvariant ==
  /\ [](pc = "while" /\ LoopContinues(found, n, broke) => bottom <= top)
  /\ [][/\ (pc = "while" /\ n' = n + 1 =>
              /\ bottom <= Val(xs'.bkfEl)
              /\ Val(xs'.bkfEl) <= top
              /\ InitialBottom(xs) <= Val(xs'.bkfEl))
        /\ (LoopStep /\ foundUpperBound =>
              /\ bottom <= bottom'
              /\ top' <= top
              /\ foundUpperBound')]_vars

C25_Witness ==
  /\ pc = "while" /\ foundUpperBound /\ n >= 3
  /\ bottom > InitialBottom(xs)
  /\ top < InitialTop(xs)
  /\ bottom <= Val(xs.bkfEl) /\ Val(xs.bkfEl) <= top

(***************************************************************************)
(* Properties of the Profile.                                              *)
(***************************************************************************)

\* The features of the Profile, as ordered_features returns them.
Ordered == ordered_features(profile.features, profile.keys)

\* Every row lies in the index range of a feature.
Covered ==
  \A i \in 0..(Len(profile.calls) - 1) :
     \E k \in 1..Len(Ordered) : Ordered[k].first <= i /\ i <= Ordered[k].last

\* Each feature starts at or before the last index of the one before it.
Chained ==
  \A k \in 1..(Len(Ordered) - 1) : Ordered[k + 1].first <= Ordered[k].last

\* A column populated on the final row has a feature that ends there.
FinalRunEmitted ==
  LET final == Len(profile.calls) - 1
  IN \A m \in profile.calls[final + 1] :
        \E k \in 1..Len(profile.features[m]) :
           profile.features[m][k].last = final

\* C26: the features of a constructed Profile cover every row, each starts
\* at or before the last index of the one before it in ordered_features, and
\* a morphology run that reaches the final row is emitted as a feature.
C26_FeaturesCoverProfile ==
  ppc = "built" => Covered /\ Chained /\ FinalRunEmitted

\* A call of repair_flow_direction returns.
RepairReturns == ppc = "repair" /\ ppc' = "built"

\* C27: after repair_flow_direction with either method the water surface
\* is non-increasing along the profile; 'raise' lowers no value and 'lower'
\* raises none; and a call with the method of the call before it changes
\* nothing.
C27_RepairedInOnePass ==
  [][RepairReturns =>
       LET before == loop.before
           after == profile'.ws
       IN /\ Len(after) = Len(before)
          /\ \A i \in 1..(Len(after) - 1) : after[i] >= after[i + 1]
          /\ (loop.method = "raise" =>
                \A i \in 1..Len(after) : after[i] >= before[i])
          /\ (loop.method = "lower" =>
                \A i \in 1..Len(after) : after[i] <= before[i])
          /\ (loop.method = method => after = before)]_vars

\* A raise has lifted a row of a rising water surface.
C27_Witness ==
  /\ ppc = "built" /\ method = "raise"
  /\ Len(df.ws) >= 3
  /\ \E i \in 1..Len(df.ws) : profile.ws[i] > df.ws[i]
  /\ \A i \in 1..(Len(df.ws) - 1) : profile.ws[i] >= profile.ws[i + 1]

====
